---------------------------- MODULE Spec2Model ----------------------------
(***************************************************************************)
(* A model of lastsys/c64image: the colour-matching engine of              *)
(* internal/c64image/converter.go and the driver that runs one conversion  *)
(* per distance metric as a goroutine.                                     *)
(*                                                                         *)
(* Numbers.  The program computes in float64, and so does the model: a     *)
(* float64 is carried as sign, 53-bit significand (in two limbs of 27      *)
(* bits) and exponent, every operation rounds to nearest, ties to even,    *)
(* and the functions of package math are computed by the algorithms of     *)
(* the Go library.  Values below 2^-1022 do not occur and are flushed to   *)
(* zero.                                                                   *)
(***************************************************************************)
EXTENDS Integers, Sequences, FiniteSets, TLC

Abs(x) == IF x < 0 THEN -x ELSE x
Min2(a, b) == IF a < b THEN a ELSE b
Max2(a, b) == IF a < b THEN b ELSE a

\* e, with v computed before it: the order of the program's statements
After(v, e) == <<v, e>>[2]

(***************************************************************************)
(* Calls.  Apply(f, a) is the value the function f of the program, of the  *)
(* language or of package math returns for the arguments a.                *)
(***************************************************************************)
RECURSIVE Apply(_, _)

F64Add(x, y) == Apply("+", <<x, y>>)
F64Sub(x, y) == Apply("-", <<x, y>>)
F64Mul(x, y) == Apply("*", <<x, y>>)
F64Div(x, y) == Apply("/", <<x, y>>)
F64FromInt(n) == Apply("float64", <<n>>)
F64Sqrt(x) == Apply("math.Sqrt", <<x>>)
F64Log(x) == Apply("math.Log", <<x>>)
F64Exp(x) == Apply("math.Exp", <<x>>)
F64Pow(x, y) == Apply("math.Pow", <<x, y>>)
F64Sin(x) == Apply("math.Sin", <<x>>)
F64Cos(x) == Apply("math.Cos", <<x>>)
F64Atan(x) == Apply("math.Atan", <<x>>)
F64Atan2(y, x) == Apply("math.Atan2", <<y, x>>)

(***************************************************************************)
(* float64.  A float64 is [cls, s, hi, lo, e]: cls is "fin", "inf" or      *)
(* "nan", s the sign bit, and a finite value other than zero is            *)
(* (-1)^s * M * 2^e with the significand M = hi * 2^27 + lo in             *)
(* [2^52, 2^53); zero has hi = lo = e = 0.  Addition, multiplication,      *)
(* division and square root round to nearest, ties to even, as the         *)
(* hardware does.  Results below 2^-1022 become zero (the program's        *)
(* values stay far above).                                                 *)
(***************************************************************************)
Limb == 2^27
Wide == 2^30

NaN == [cls |-> "nan", s |-> 0, hi |-> 0, lo |-> 0, e |-> 0]
Inf(s) == [cls |-> "inf", s |-> s, hi |-> 0, lo |-> 0, e |-> 0]
Zero(s) == [cls |-> "fin", s |-> s, hi |-> 0, lo |-> 0, e |-> 0]

\* the finite value with significand (hi, lo) and exponent e
Fin(s, hi, lo, e) ==
    IF e > 971 THEN Inf(s)
    ELSE IF e < -1074 THEN Zero(s)
    ELSE [cls |-> "fin", s |-> s, hi |-> hi, lo |-> lo, e |-> e]

\* floor(log2(n)) for 1 <= n < 256
Lg8(n) ==
    IF n >= 16
    THEN IF n >= 64 THEN (IF n >= 128 THEN 7 ELSE 6)
         ELSE (IF n >= 32 THEN 5 ELSE 4)
    ELSE IF n >= 4 THEN (IF n >= 8 THEN 3 ELSE 2)
         ELSE (IF n >= 2 THEN 1 ELSE 0)

\* floor(log2(n)) for 1 <= n < 2^31
Log2(n) ==
    IF n >= 65536
    THEN IF n >= 16777216 THEN 24 + Lg8(n \div 16777216)
         ELSE 16 + Lg8(n \div 65536)
    ELSE IF n >= 256 THEN 8 + Lg8(n \div 256) ELSE Lg8(n)

F64Neg(x) == IF x.cls = "nan" THEN x ELSE [x EXCEPT !.s = 1 - x.s]

F64Abs(x) == IF x.cls = "nan" THEN x ELSE [x EXCEPT !.s = 0]

\* |x| < |y| for finite x, y other than zero
MagLess(x, y) ==
    \/ x.e < y.e
    \/ x.e = y.e /\ (x.hi < y.hi \/ (x.hi = y.hi /\ x.lo < y.lo))

\* x < y; false when either is a NaN
F64Less(x, y) ==
    IF x.cls = "nan" \/ y.cls = "nan" THEN FALSE
    ELSE IF x.cls = "inf" \/ y.cls = "inf"
    THEN IF x.cls = "inf" /\ y.cls = "inf" THEN x.s > y.s
         ELSE IF x.cls = "inf" THEN x.s = 1 ELSE y.s = 0
    ELSE IF x.hi = 0 \/ y.hi = 0
    THEN IF x.hi = 0 /\ y.hi = 0 THEN FALSE
         ELSE IF x.hi = 0 THEN y.s = 0 ELSE x.s = 1
    ELSE IF x.s # y.s THEN x.s = 1
    ELSE IF x.s = 0 THEN MagLess(x, y) ELSE MagLess(y, x)

\* x == y; false when either is a NaN, true for the two zeros
F64Eq(x, y) ==
    /\ x.cls # "nan"
    /\ y.cls # "nan"
    /\ ~F64Less(x, y)
    /\ ~F64Less(y, x)

F64Leq(x, y) == F64Less(x, y) \/ F64Eq(x, y)

\* float64(n) for an int with |n| < 2^31: exact
FromNat(s, n, bl) ==
    IF bl <= 25
    THEN Fin(s, n * 2^(25 - bl), 0, bl - 52)
    ELSE Fin(s, n \div 2^(bl - 25), (n % 2^(bl - 25)) * 2^(52 - bl), bl - 52)

FromInt(n) ==
    IF n = 0 THEN Zero(0)
    ELSE IF n < 0 THEN FromNat(1, -n, Log2(-n))
    ELSE FromNat(0, n, Log2(n))

(***************************************************************************)
(* A wide register [H, L, e] is the number (H * 2^30 + L) * 2^e.  Its      *)
(* three lowest bits are the guard, round and sticky bits of a result.     *)
(***************************************************************************)
\* the result with sign s of the register w, whose 56 bits are all used
Rounded(s, w) ==
    IF (w.L % 8) > 4 \/ ((w.L % 8) = 4 /\ (w.L \div 8) % 2 = 1)
    THEN IF (w.L \div 8) + 1 < Limb THEN Fin(s, w.H, (w.L \div 8) + 1, w.e + 3)
         ELSE IF w.H + 1 < 2^26 THEN Fin(s, w.H + 1, 0, w.e + 3)
         ELSE Fin(s, 2^25, 0, w.e + 4)
    ELSE Fin(s, w.H, w.L \div 8, w.e + 3)

\* the register (H, L) with bl bits brought to 56 bits; a bit shifted out
\* stays in the sticky bit
Aligned(H, L, e, bl) ==
    IF bl = 56 THEN [H |-> H, L |-> L, e |-> e]
    ELSE IF bl = 57
    THEN [H |-> H \div 2,
          L |-> (H % 2) * 2^29 + (L \div 2)
                  + (IF L % 4 = 1 THEN 1 ELSE 0),
          e |-> e + 1]
    ELSE IF 56 - bl < 30
    THEN [H |-> H * 2^(56 - bl) + (L \div 2^(bl - 26)),
          L |-> (L % 2^(bl - 26)) * 2^(56 - bl),
          e |-> e - (56 - bl)]
    ELSE [H |-> L * 2^(26 - bl), L |-> 0, e |-> e - (56 - bl)]

\* the register (H, L) > 0 brought to 56 bits
Normal(H, L, e) ==
    Aligned(H, L, e, IF H > 0 THEN 31 + Log2(H) ELSE 1 + Log2(L))

\* the register (H, L) shifted right by 0 <= d <= 55 bits, sticky
ShiftedRight(H, L, d) ==
    IF d = 0 THEN [H |-> H, L |-> L]
    ELSE IF d < 30
    THEN [H |-> H \div 2^d,
          L |-> (L \div 2^d) + (H % 2^d) * 2^(30 - d)
                  + (IF L % 2^d # 0 /\ (L \div 2^d) % 2 = 0 THEN 1 ELSE 0)]
    ELSE [H |-> 0,
          L |-> (H \div 2^(d - 30))
                  + (IF (L # 0 \/ H % 2^(d - 30) # 0)
                          /\ (H \div 2^(d - 30)) % 2 = 0 THEN 1 ELSE 0)]

WAdd(a, b) ==
    IF a.L + b.L >= Wide THEN [H |-> a.H + b.H + 1, L |-> a.L + b.L - Wide]
    ELSE [H |-> a.H + b.H, L |-> a.L + b.L]

\* a - b for a >= b
WSub(a, b) ==
    IF a.L >= b.L THEN [H |-> a.H - b.H, L |-> a.L - b.L]
    ELSE [H |-> a.H - b.H - 1, L |-> a.L + Wide - b.L]

\* the result with sign s of the register w > 0 with exponent e
Packed(s, w, e) == Rounded(s, Normal(w.H, w.L, e))

\* the sum with sign s of the registers a >= b, or their difference
SumOf(s, a, b, e, same) ==
    IF ~same /\ a = b THEN Zero(0)
    ELSE Packed(s, IF same THEN WAdd(a, b) ELSE WSub(a, b), e)

\* x + y for finite x, y other than zero with |x| >= |y|
AddOrdered(x, y) ==
    IF x.e - y.e >= 56 THEN x
    ELSE SumOf(x.s, [H |-> x.hi, L |-> x.lo * 8],
               ShiftedRight(y.hi, y.lo * 8, x.e - y.e), x.e - 3, x.s = y.s)

\* x + y
Add(x, y) ==
    IF x.cls = "nan" \/ y.cls = "nan" THEN NaN
    ELSE IF x.cls = "inf" \/ y.cls = "inf"
    THEN IF x.cls = "inf" /\ y.cls = "inf" /\ x.s # y.s THEN NaN
         ELSE IF x.cls = "inf" THEN x ELSE y
    ELSE IF x.hi = 0 \/ y.hi = 0
    THEN IF x.hi = 0 /\ y.hi = 0
         THEN Zero(IF x.s = 1 /\ y.s = 1 THEN 1 ELSE 0)
         ELSE IF x.hi = 0 THEN y ELSE x
    ELSE IF MagLess(x, y) THEN AddOrdered(y, x) ELSE AddOrdered(x, y)

\* x - y
Sub(x, y) == F64Add(x, F64Neg(y))

(***************************************************************************)
(* Multiplication: the significands as four digits of 14 bits, the         *)
(* product as eight.                                                       *)
(***************************************************************************)
Digit == 2^14

Digits(x) ==
    [d0 |-> x.lo % Digit,
     d1 |-> (x.lo \div Digit) + (x.hi % 2) * 2^13,
     d2 |-> (x.hi \div 2) % Digit,
     d3 |-> x.hi \div 2^15]

\* the digit sums of the product, column by column
Columns7(a, b) ==
    [c0 |-> a.d0 * b.d0,
     c1 |-> a.d0 * b.d1 + a.d1 * b.d0,
     c2 |-> a.d0 * b.d2 + a.d1 * b.d1 + a.d2 * b.d0,
     c3 |-> a.d0 * b.d3 + a.d1 * b.d2 + a.d2 * b.d1 + a.d3 * b.d0,
     c4 |-> a.d1 * b.d3 + a.d2 * b.d2 + a.d3 * b.d1,
     c5 |-> a.d2 * b.d3 + a.d3 * b.d2,
     c6 |-> a.d3 * b.d3]

\* the carries taken up: t[k] is column k with the carry of the columns
\* below it
Carried(c) ==
    LET t0 == c.c0
        t1 == c.c1 + (t0 \div Digit)
        t2 == c.c2 + (t1 \div Digit)
        t3 == c.c3 + (t2 \div Digit)
        t4 == c.c4 + (t3 \div Digit)
        t5 == c.c5 + (t4 \div Digit)
        t6 == c.c6 + (t5 \div Digit)
    IN  [low |-> (t0 % Digit) + (t1 % Digit) + (t2 % Digit),
         p3 |-> t3 % Digit, p4 |-> t4 % Digit, p5 |-> t5 % Digit,
         p6 |-> t6 % Digit, p7 |-> t6 \div Digit]

\* the 56 leading bits of the product p, which has 105 + up bits; r is
\* 7 + up
Leading(p, r, e) ==
    [H |-> (p.p5 \div 2^(2 + r)) + p.p6 * 2^(12 - r) + p.p7 * 2^(26 - r),
     L |-> ((p.p3 \div 2^r) + p.p4 * 2^(14 - r)
              + (p.p5 % 2^(2 + r)) * 2^(28 - r))
           + (IF (p.low # 0 \/ p.p3 % 2^r # 0) /\ (p.p3 \div 2^r) % 2 = 0
              THEN 1 ELSE 0),
     e |-> e + 42 + r]

Product(s, p, e) ==
    Rounded(s, Leading(p, IF p.p7 >= 128 THEN 8 ELSE 7, e))

\* x * y
Mul(x, y) ==
    IF x.cls = "nan" \/ y.cls = "nan" THEN NaN
    ELSE IF x.cls = "inf" \/ y.cls = "inf"
    THEN IF (x.cls = "fin" /\ x.hi = 0) \/ (y.cls = "fin" /\ y.hi = 0)
         THEN NaN
         ELSE Inf((x.s + y.s) % 2)
    ELSE IF x.hi = 0 \/ y.hi = 0 THEN Zero((x.s + y.s) % 2)
    ELSE Product((x.s + y.s) % 2, Carried(Columns7(Digits(x), Digits(y))),
                 x.e + y.e)

(***************************************************************************)
(* Division: the quotient bit by bit.                                      *)
(***************************************************************************)
\* a two-limb natural number doubled
LDbl(v) ==
    [hi |-> 2 * v.hi + ((2 * v.lo) \div Limb), lo |-> (2 * v.lo) % Limb]

LGeq(a, b) == a.hi > b.hi \/ (a.hi = b.hi /\ a.lo >= b.lo)

LEq(a, b) == a.hi = b.hi /\ a.lo = b.lo

\* a - b for a >= b
LSub(a, b) ==
    IF a.lo >= b.lo
    THEN [hi |-> a.hi - b.hi, lo |-> a.lo - b.lo]
    ELSE [hi |-> a.hi - b.hi - 1, lo |-> a.lo + Limb - b.lo]

\* v + 1
LInc(v) ==
    IF v.lo + 1 = Limb THEN [hi |-> v.hi + 1, lo |-> 0]
    ELSE [hi |-> v.hi, lo |-> v.lo + 1]

\* one step of the long division: the next quotient bit
DivStep(s, d) ==
    LET r2  == LDbl(s.r)
        bit == LGeq(r2, d)
        q2  == LDbl(s.q)
    IN  [r |-> IF bit THEN LSub(r2, d) ELSE r2,
         q |-> IF bit THEN LInc(q2) ELSE q2]

\* n >= 1 steps of the long division from s (a remainder is never
\* negative): the first half of them, then the rest
RECURSIVE DivSteps(_, _, _)
DivSteps(s, d, n) ==
    IF s.r.hi < 0 THEN s
    ELSE IF n = 1 THEN DivStep(s, d)
    ELSE DivSteps(DivSteps(s, d, n \div 2), d, n - (n \div 2))

\* the quotient significand q with exponent e0, renormalised
F64Pack(s, q, e0) ==
    IF q.hi = 2^26 THEN Fin(s, 2^25, 0, e0 + 1) ELSE Fin(s, q.hi, q.lo, e0)

\* round to nearest, ties to even: is the quotient rounded up
RoundUp(s, d) ==
    IF LEq(LDbl(s.r), d) THEN s.q.lo % 2 = 1 ELSE LGeq(LDbl(s.r), d)

F64Round(sg, s, d, e0) ==
    F64Pack(sg, IF RoundUp(s, d) THEN LInc(s.q) ELSE s.q, e0)

\* the 52 quotient bits after the leading one, then the rounding
F64Long(sg, s0, d, e0) == F64Round(sg, DivSteps(s0, d, 52), d, e0)

\* the significands n and d divided; the leading quotient bit is 1
F64Quot(sg, n, d, e) ==
    IF LGeq(n, d)
    THEN F64Long(sg, [r |-> LSub(n, d), q |-> [hi |-> 0, lo |-> 1]], d,
                 e - 52)
    ELSE F64Long(sg, [r |-> LSub(LDbl(n), d), q |-> [hi |-> 0, lo |-> 1]],
                 d, e - 53)

\* x / y
Quo(x, y) ==
    IF x.cls = "nan" \/ y.cls = "nan" THEN NaN
    ELSE IF x.cls = "inf"
    THEN IF y.cls = "inf" THEN NaN ELSE Inf((x.s + y.s) % 2)
    ELSE IF y.cls = "inf" THEN Zero((x.s + y.s) % 2)
    ELSE IF y.hi = 0
    THEN IF x.hi = 0 THEN NaN ELSE Inf((x.s + y.s) % 2)
    ELSE IF x.hi = 0 THEN Zero((x.s + y.s) % 2)
    ELSE F64Quot((x.s + y.s) % 2, [hi |-> x.hi, lo |-> x.lo],
                 [hi |-> y.hi, lo |-> y.lo], x.e - y.e)

(***************************************************************************)
(* Square root: the root of M * 2^54 (M doubled when the exponent is odd)  *)
(* bit by bit, two bits of M for each bit of the root.                     *)
(***************************************************************************)
\* one step: m holds the bits of M not yet used (54 bits, two limbs)
SqrtStep(s) ==
    LET rem4 == [H |-> s.rem.H * 4 + (s.rem.L \div 2^28),
                 L |-> (s.rem.L % 2^28) * 4 + (s.m.hi \div 2^25)]
        tri  == [H |-> s.root.H * 4 + (s.root.L \div 2^28),
                 L |-> (s.root.L % 2^28) * 4 + 1]
        bit  == rem4.H > tri.H \/ (rem4.H = tri.H /\ rem4.L >= tri.L)
        rt2  == [H |-> s.root.H * 2 + (s.root.L \div 2^29),
                 L |-> (s.root.L % 2^29) * 2]
    IN  [rem  |-> IF bit THEN WSub(rem4, tri) ELSE rem4,
         root |-> IF bit THEN [H |-> rt2.H, L |-> rt2.L + 1] ELSE rt2,
         m    |-> [hi |-> (s.m.hi % 2^25) * 4 + (s.m.lo \div 2^25),
                   lo |-> (s.m.lo % 2^25) * 4]]

RECURSIVE SqrtSteps(_, _)
SqrtSteps(s, n) ==
    IF s.rem.H < 0 THEN s
    ELSE IF n = 1 THEN SqrtStep(s)
    ELSE SqrtSteps(SqrtSteps(s, n \div 2), n - (n \div 2))

\* the root r of 54 bits with its remainder, as a result: the lowest bit
\* of the root is the round bit
Rooted(st, e) ==
    Rounded(0, [H |-> st.root.H * 4 + (st.root.L \div 2^28),
                L |-> (st.root.L % 2^28) * 4
                        + (IF st.rem.H # 0 \/ st.rem.L # 0 THEN 1 ELSE 0),
                e |-> e - 2])

\* the root of m * 2^e for e even, m of at most 54 bits
RootOf(m, e) ==
    Rooted(SqrtSteps([rem |-> [H |-> 0, L |-> 0], root |-> [H |-> 0, L |-> 0],
                      m |-> m], 54), (e - 54) \div 2)

\* math.Sqrt(x)
Sqrt(x) ==
    IF x.cls = "nan" THEN NaN
    ELSE IF x.cls = "fin" /\ x.hi = 0 THEN x
    ELSE IF x.s = 1 THEN NaN
    ELSE IF x.cls = "inf" THEN x
    ELSE IF x.e % 2 = 0 THEN RootOf([hi |-> x.hi, lo |-> x.lo], x.e)
    ELSE RootOf([hi |-> 2 * x.hi + (x.lo \div 2^26), lo |-> (x.lo % 2^26) * 2],
                x.e - 1)

(***************************************************************************)
(* Conversions to integers, and scaling by powers of two.                  *)
(***************************************************************************)
\* the integer part of |x| for |x| < 2^31, and whether x has a fraction
F64Parts(x) ==
    IF x.hi = 0 THEN [int |-> 0, frac |-> FALSE]
    ELSE IF -x.e >= 53 THEN [int |-> 0, frac |-> TRUE]
    ELSE IF -x.e >= 27
    THEN [int  |-> x.hi \div 2^((-x.e) - 27),
          frac |-> x.hi % 2^((-x.e) - 27) # 0 \/ x.lo # 0]
    ELSE [int  |-> x.hi * 2^(27 + x.e) + (x.lo \div 2^(-x.e)),
          frac |-> x.lo % 2^(-x.e) # 0]

\* int(x): towards zero
F64Trunc(x) == IF x.s = 1 THEN -F64Parts(x).int ELSE F64Parts(x).int

\* int(math.Ceil(x))
F64Ceil(x) ==
    IF x.s = 1 THEN -F64Parts(x).int
    ELSE IF F64Parts(x).frac THEN F64Parts(x).int + 1 ELSE F64Parts(x).int

\* math.Ldexp(x, k)
F64Ldexp(x, k) ==
    IF x.cls # "fin" \/ x.hi = 0 THEN x ELSE Fin(x.s, x.hi, x.lo, x.e + k)

\* math.Pi as a float64
Pi == Fin(0, 52707178, 71576856, -51)

HalfPi == Fin(0, 52707178, 71576856, -52)

QuarterPi == Fin(0, 52707178, 71576856, -53)

ThreeQuarterPi == Fin(0, 39530383, 120791506, -51)

\* 4 / Pi
FourOverPi == Fin(0, 42722829, 97110147, -52)

\* Sqrt2 / 2
HalfSqrt2 == Fin(0, 47453132, 109001677, -53)

\* lines 72-75: math.Pi / 180. and 180. / math.Pi, and deg2rad * 2.
deg2rad == Fin(0, 37480660, 38968633, -58)

rad2deg == Fin(0, 60078979, 40092152, -47)

deg2radTwice == Fin(0, 37480660, 38968633, -57)

\* log.go, exp.go
Ln2Hi == Fin(0, 46516319, 115343360, -53)

Ln2Lo == Fin(0, 55000550, 91831414, -85)

Log2e == Fin(0, 48408812, 86737662, -52)

\* log.go: L7, L5, L3, L1 and L6, L4, L2
LogOdd ==
    <<Fin(0, 39723611, 121524804, -55),
      Fin(0, 48811154, 113968094, -55),
      Fin(0, 38347922, 69374809, -54),
      Fin(0, 44739242, 89478547, -53)>>
LogEven ==
    <<Fin(0, 41107770, 7915167, -55),
      Fin(0, 59652259, 93223087, -55),
      Fin(0, 53687091, 26737156, -54)>>

\* exp.go: P5 .. P1
ExpP ==
    <<Fin(0, 46591278, 46048464, -77),
      Fin(1, 58173496, 97676273, -72),
      Fin(0, 36359509, 119922220, -66),
      Fin(1, 47721858, 113163667, -61),
      Fin(0, 44739242, 89478485, -55)>>

ExpOverflow == Fin(0, 46516319, 117062127, -43)

ExpUnderflow == Fin(1, 48833050, 86847569, -43)

ExpNearZero == Fin(0, 33554432, 0, -80)

\* sin.go: _sin and _cos
SinCoef ==
    <<Fin(0, 45817763, 131177677, -85),
      Fin(1, 56409269, 19472221, -78),
      Fin(0, 48479338, 108873889, -71),
      Fin(1, 54539267, 29351683, -65),
      Fin(0, 35791394, 17889232, -59),
      Fin(1, 44739242, 89478472, -55)>>
CosCoef ==
    <<Fin(1, 52382004, 8788635, -89),
      Fin(0, 37606319, 55459589, -81),
      Fin(1, 38783471, 111954886, -74),
      Fin(0, 54539267, 29902069, -68),
      Fin(1, 47721858, 113332113, -62),
      Fin(0, 44739242, 89478475, -57)>>

\* sin.go: Pi/4 split into three parts
PI4A == Fin(0, 52707176, 0, -53)

PI4B == Fin(0, 42501536, 0, -77)

PI4C == Fin(0, 50909971, 13390192, -101)

\* atan.go: P0 .. P4 and 1, Q0 .. Q4
AtanP ==
    <<Fin(1, 58724340, 32974228, -53),
      Fin(1, 33884811, 57376890, -48),
      Fin(1, 39326086, 109576819, -46),
      Fin(1, 64428005, 84261413, -46),
      Fin(1, 34000191, 86568078, -46)>>
AtanQ ==
    <<Fin(0, 33554432, 0, -52),
      Fin(0, 52131979, 51667004, -48),
      Fin(0, 43260840, 62454309, -45),
      Fin(0, 56738586, 48414267, -44),
      Fin(0, 63621090, 61884906, -44),
      Fin(0, 51000287, 62743276, -45)>>

Morebits == Fin(0, 37012678, 51665927, -106)

HalfMorebits == Fin(0, 37012678, 51665927, -107)

Tan3pio8 == Fin(0, 40503782, 54500838, -51)

(***************************************************************************)
(* The functions of Go's package math the program calls, as the package    *)
(* computes them in Go: Log, Exp, Pow, Sin, Cos, Atan2.                    *)
(***************************************************************************)
One == Fin(0, 2^25, 0, -52)
Two == Fin(0, 2^25, 0, -51)
Half == Fin(0, 2^25, 0, -53)

\* the decimal literal n / 10^k
Dec(n, k) == F64Div(F64FromInt(n), F64FromInt(10^k))

\* ((c[1] * z + c[2]) * z + c[3]) ... from acc, which holds the terms
\* before c[i]
RECURSIVE Horner(_, _, _, _)
Horner(c, z, i, acc) ==
    After(acc,
          IF i > Len(c) THEN acc
          ELSE Horner(c, z, i + 1, F64Add(F64Mul(acc, z), c[i])))

\* log.go: the sum for f = f1 - 1 and the exponent k
LogSum(f, k, s, s2, s4, hfsq) ==
    After(<<s4, hfsq>>,
          F64Sub(F64Mul(k, Ln2Hi),
                 F64Sub(F64Sub(hfsq,
                               F64Add(F64Mul(s, F64Add(hfsq,
                                         F64Add(F64Mul(s2, Horner(LogOdd, s4, 2, LogOdd[1])),
                                                F64Mul(s4, Horner(LogEven, s4, 2, LogEven[1]))))),
                                      F64Mul(k, Ln2Lo))),
                        f)))

LogSquares(f, k, s, s2) ==
    After(s2,
          LogSum(f, k, s, s2, F64Mul(s2, s2), F64Mul(F64Mul(Half, f), f)))

LogQuotient(f, k, s) ==
    After(s,
          LogSquares(f, k, s, F64Mul(s, s)))

LogReduced(f, ki) ==
    After(f,
          LogQuotient(f, F64FromInt(ki), F64Div(f, F64Add(Two, f))))

\* math.Log(x)
Log(x) ==
    IF x.cls = "nan" THEN x
    ELSE IF x.cls = "fin" /\ x.hi = 0 THEN Inf(1)
    ELSE IF x.s = 1 THEN NaN
    ELSE IF x.cls = "inf" THEN x
    ELSE IF F64Less(Fin(0, x.hi, x.lo, -53), HalfSqrt2)
    THEN LogReduced(F64Sub(Fin(0, x.hi, x.lo, -52), One), x.e + 52)
    ELSE LogReduced(F64Sub(Fin(0, x.hi, x.lo, -53), One), x.e + 53)

\* exp.go, expmulti: y from r = hi - lo, t = r * r and c
ExpY(hi, lo, k, r, c) ==
    After(c,
          F64Ldexp(F64Sub(One, F64Sub(F64Sub(lo, F64Div(F64Mul(r, c), F64Sub(Two, c))),
                                      hi)), k))

ExpC(hi, lo, k, r, t) ==
    After(t,
          ExpY(hi, lo, k, r, F64Sub(r, F64Mul(t, Horner(ExpP, t, 2, ExpP[1])))))

ExpR(hi, lo, k, r) ==
    After(r,
          ExpC(hi, lo, k, r, F64Mul(r, r)))

expmulti(hi, lo, k) ==
    After(<<hi, lo>>,
          ExpR(hi, lo, k, F64Sub(hi, lo)))

ExpReduced(x, k) ==
    After(k,
          expmulti(F64Sub(x, F64Mul(F64FromInt(k), Ln2Hi)),
                   F64Mul(F64FromInt(k), Ln2Lo), k))

\* math.Exp(x)
Exp(x) ==
    IF x.cls = "nan" \/ (x.cls = "inf" /\ x.s = 0) THEN x
    ELSE IF x.cls = "inf" THEN Zero(0)
    ELSE IF F64Less(ExpOverflow, x) THEN Inf(0)
    ELSE IF F64Less(x, ExpUnderflow) THEN Zero(0)
    ELSE IF F64Less(F64Neg(ExpNearZero), x) /\ F64Less(x, ExpNearZero)
    THEN F64Add(One, x)
    ELSE IF x.s = 1
    THEN ExpReduced(x, F64Trunc(F64Sub(F64Mul(Log2e, x), Half)))
    ELSE ExpReduced(x, F64Trunc(F64Add(F64Mul(Log2e, x), Half)))

\* is y an odd integer (|y| < 2^31)
IsOddInt(y) ==
    /\ y.cls = "fin"
    /\ y.hi # 0
    /\ y.e <= 0
    /\ y.e > -53
    /\ ~F64Parts(y).frac
    /\ F64Parts(y).int % 2 = 1

\* pow.go: the loop over the bits of yi, from a1 * 2^ae and x1 * 2^xe
RECURSIVE PowLoop(_, _, _, _, _)
PowLoop(i, a1, ae, x1, xe) ==
    After(<<a1, x1>>,
          IF i = 0 THEN [a1 |-> a1, ae |-> ae]
          ELSE IF xe < -4096 \/ 4096 < xe THEN [a1 |-> a1, ae |-> ae + xe]
          ELSE IF F64Less(F64Mul(x1, x1), Half)
          THEN PowLoop(i \div 2, IF i % 2 = 1 THEN F64Mul(a1, x1) ELSE a1,
                       IF i % 2 = 1 THEN ae + xe ELSE ae,
                       F64Add(F64Mul(x1, x1), F64Mul(x1, x1)), 2 * xe - 1)
          ELSE PowLoop(i \div 2, IF i % 2 = 1 THEN F64Mul(a1, x1) ELSE a1,
                       IF i % 2 = 1 THEN ae + xe ELSE ae,
                       F64Mul(x1, x1), 2 * xe))

\* pow.go: the answer a1 * 2^ae, inverted for y < 0
PowAnswer(r, y) ==
    After(r,
          IF y.s = 1 THEN F64Ldexp(F64Div(One, r.a1), -r.ae)
          ELSE F64Ldexp(r.a1, r.ae))

\* pow.go: x^yf first, for the fraction yf of |y| and its integer part yi
PowParts(x, y, yi, yf) ==
    After(yf,
          IF yf.hi # 0 /\ x.s = 1 THEN NaN
          ELSE IF yf.hi = 0
          THEN PowAnswer(PowLoop(yi, One, 0, Fin(x.s, x.hi, x.lo, -53), x.e + 53), y)
          ELSE IF F64Less(Half, yf)
          THEN PowAnswer(PowLoop(yi + 1, F64Exp(F64Mul(F64Sub(yf, One), F64Log(x))),
                                 0, Fin(x.s, x.hi, x.lo, -53), x.e + 53), y)
          ELSE PowAnswer(PowLoop(yi, F64Exp(F64Mul(yf, F64Log(x))), 0,
                                 Fin(x.s, x.hi, x.lo, -53), x.e + 53), y))

\* pow.go: x = +-0
PowOfZero(x, y) ==
    IF y.s = 1
    THEN IF IsOddInt(y) THEN Inf(x.s) ELSE Inf(0)
    ELSE IF IsOddInt(y) THEN x ELSE Zero(0)

\* math.Pow(x, y), for |y| < 2^31 or infinite
Pow(x, y) ==
    IF (y.cls = "fin" /\ y.hi = 0) \/ x = One THEN One
    ELSE IF y = One THEN x
    ELSE IF x.cls = "nan" \/ y.cls = "nan" THEN NaN
    ELSE IF x.cls = "fin" /\ x.hi = 0 THEN PowOfZero(x, y)
    ELSE IF y.cls = "inf"
    THEN IF x = F64Neg(One) THEN One
         ELSE IF F64Less(F64Abs(x), One) = (y.s = 0) THEN Zero(0)
         ELSE Inf(0)
    ELSE IF x.cls = "inf"
    THEN IF x.s = 1 THEN PowOfZero(Zero(1), F64Neg(y))
         ELSE IF y.s = 1 THEN Zero(0) ELSE Inf(0)
    ELSE IF y = Half THEN F64Sqrt(x)
    ELSE IF y = F64Neg(Half) THEN F64Div(One, F64Sqrt(x))
    ELSE PowParts(x, y, F64Parts(y).int,
                  F64Sub(F64Abs(y), F64FromInt(F64Parts(y).int)))

\* sin.go: z for x >= 0 and the even j beside x / (Pi/4)
TrigZ(x, y) ==
    F64Sub(F64Sub(F64Sub(x, F64Mul(y, PI4A)), F64Mul(y, PI4B)),
           F64Mul(y, PI4C))

SinPoly(z, zz) ==
    F64Add(z, F64Mul(F64Mul(z, zz), Horner(SinCoef, zz, 2, SinCoef[1])))

CosPoly(zz) ==
    F64Add(F64Sub(One, F64Mul(Half, zz)),
           F64Mul(F64Mul(zz, zz), Horner(CosCoef, zz, 2, CosCoef[1])))

\* the sine or cosine series for the octant j, negated for sign = 1
TrigSeries(j, sign, z, zz, cosine) ==
    After(<<z, zz>>,
          IF ((j % 4 = 1 \/ j % 4 = 2) /\ ~cosine) \/ (~(j % 4 = 1 \/ j % 4 = 2) /\ cosine)
          THEN IF sign = 1 THEN F64Neg(CosPoly(zz)) ELSE CosPoly(zz)
          ELSE IF sign = 1 THEN F64Neg(SinPoly(z, zz)) ELSE SinPoly(z, zz))

TrigSquared(j, sign, z, cosine) ==
    After(z,
          TrigSeries(j, sign, z, F64Mul(z, z), cosine))

\* j = uint64(x * (4 / Pi)), made even, for x >= 0
TrigOctant(x) ==
    F64Trunc(F64Mul(x, FourOverPi)) + (F64Trunc(F64Mul(x, FourOverPi)) % 2)

\* math.Sin(x) for |x| < 2^29
Sin(x) ==
    IF x.cls = "nan" \/ (x.cls = "fin" /\ x.hi = 0) THEN x
    ELSE IF x.cls = "inf" THEN NaN
    ELSE TrigSquared(TrigOctant(F64Abs(x)) % 8,
                     (x.s + (IF TrigOctant(F64Abs(x)) % 8 > 3 THEN 1 ELSE 0)) % 2,
                     TrigZ(F64Abs(x), F64FromInt(TrigOctant(F64Abs(x)))), FALSE)

\* math.Cos(x) for |x| < 2^29
Cos(x) ==
    IF x.cls = "nan" \/ x.cls = "inf" THEN NaN
    ELSE TrigSquared(TrigOctant(F64Abs(x)) % 8,
                     ((IF TrigOctant(F64Abs(x)) % 8 > 3 THEN 1 ELSE 0)
                        + (IF TrigOctant(F64Abs(x)) % 4 > 1 THEN 1 ELSE 0)) % 2,
                     TrigZ(F64Abs(x), F64FromInt(TrigOctant(F64Abs(x)))), TRUE)

\* atan.go: xatan for z = x * x
XatanOf(x, z) ==
    After(z,
          F64Add(F64Mul(x, F64Div(F64Mul(z, Horner(AtanP, z, 2, AtanP[1])),
                                  Horner(AtanQ, z, 2, AtanQ[1]))), x))

xatan(x) ==
    After(x,
          XatanOf(x, F64Mul(x, x)))

\* atan.go: satan, for x > 0
satan(x) ==
    IF F64Leq(x, Dec(66, 2)) THEN xatan(x)
    ELSE IF F64Less(Tan3pio8, x)
    THEN F64Add(F64Sub(HalfPi, xatan(F64Div(One, x))), Morebits)
    ELSE F64Add(F64Add(QuarterPi, xatan(F64Div(F64Sub(x, One), F64Add(x, One)))),
                HalfMorebits)

\* math.Atan(x)
Atan(x) ==
    IF x.cls = "nan" \/ (x.cls = "fin" /\ x.hi = 0) THEN x
    ELSE IF x.s = 0 THEN satan(x)
    ELSE F64Neg(satan(F64Neg(x)))

\* v with the sign of y
Copysign(v, y) == [v EXCEPT !.s = y.s]

\* atan2.go: the quadrant of q = Atan(y / x)
Atan2Quadrant(q, x) ==
    After(q,
          IF x.s = 1
          THEN IF F64Leq(q, Zero(0)) THEN F64Add(q, Pi) ELSE F64Sub(q, Pi)
          ELSE q)

\* math.Atan2(y, x)
Atan2(y, x) ==
    IF x.cls = "nan" \/ y.cls = "nan" THEN NaN
    ELSE IF y.cls = "fin" /\ y.hi = 0
    THEN IF x.s = 0 THEN Copysign(Zero(0), y) ELSE Copysign(Pi, y)
    ELSE IF x.cls = "fin" /\ x.hi = 0 THEN Copysign(HalfPi, y)
    ELSE IF x.cls = "inf"
    THEN IF x.s = 0
         THEN IF y.cls = "inf" THEN Copysign(QuarterPi, y)
              ELSE Copysign(Zero(0), y)
         ELSE IF y.cls = "inf" THEN Copysign(ThreeQuarterPi, y)
              ELSE Copysign(Pi, y)
    ELSE IF y.cls = "inf" THEN Copysign(HalfPi, y)
    ELSE Atan2Quadrant(F64Atan(F64Div(y, x)), x)

(***************************************************************************)
(* Colours.  A color.RGBA is [R, G, B, A] with bytes 0..255.  A cielab is  *)
(* [l, a, b], an xyz is [x, y, z], their fields float64.                   *)
(***************************************************************************)
RGBA(r, g, b, a) == [R |-> r, G |-> g, B |-> b, A |-> a]

C64Colors ==
    [i \in 0..15 |->
        CASE i = 0  -> RGBA(0, 0, 0, 255)
          [] i = 1  -> RGBA(255, 255, 255, 255)
          [] i = 2  -> RGBA(103, 55, 43, 255)
          [] i = 3  -> RGBA(111, 163, 177, 255)
          [] i = 4  -> RGBA(111, 60, 133, 255)
          [] i = 5  -> RGBA(88, 140, 67, 255)
          [] i = 6  -> RGBA(52, 40, 121, 255)
          [] i = 7  -> RGBA(183, 198, 110, 255)
          [] i = 8  -> RGBA(111, 79, 37, 255)
          [] i = 9  -> RGBA(66, 57, 0, 255)
          [] i = 10 -> RGBA(153, 102, 89, 255)
          [] i = 11 -> RGBA(67, 67, 67, 255)
          [] i = 12 -> RGBA(107, 107, 107, 255)
          [] i = 13 -> RGBA(154, 209, 131, 255)
          [] i = 14 -> RGBA(107, 94, 180, 255)
          [] i = 15 -> RGBA(149, 149, 149, 255)]

Methods == {"RGBMethod", "CIE76", "CIE94", "CIE2000"}

cielab(l, a, b) == [l |-> l, a |-> a, b |-> b]
xyz(x, y, z) == [x |-> x, y |-> y, z |-> z]

\* math.Abs(x) < 1e-8
Tiny == Dec(1, 8)

almostZero(x) == F64Less(F64Abs(x), Tiny)

\* the literals of convertRGBAtoXYZ
GammaKnee == Dec(4045, 5)
GammaShift == Dec(55, 3)
GammaScale == Dec(1055, 3)
GammaPower == Dec(24, 1)
GammaSlope == Dec(1292, 2)
Primaries ==
    << <<Dec(4124564, 7), Dec(3575761, 7), Dec(1804375, 7)>>,
       <<Dec(2126729, 7), Dec(7151522, 7), Dec(721750, 7)>>,
       <<Dec(193339, 7), Dec(1191920, 7), Dec(9503041, 7)>> >>

\* lines 200-204 and 218 for the channel value r = float64(R) / 255.0
Expanded(r) ==
    IF F64Less(GammaKnee, r)
    THEN F64Mul(F64Pow(F64Div(F64Add(r, GammaShift), GammaScale), GammaPower),
                F64FromInt(100))
    ELSE F64Mul(F64Div(r, GammaSlope), F64FromInt(100))

\* lines 196-220 for one byte
Linear(v) == Expanded(F64Div(F64FromInt(v), F64FromInt(255)))

\* one row of lines 223-225
Mixed(row, r, g, b) ==
    F64Add(F64Add(F64Mul(row[1], r), F64Mul(row[2], g)), F64Mul(row[3], b))

\* lines 222-226
XYZOf(r, g, b) ==
    After(<<r, g, b>>,
          xyz(Mixed(Primaries[1], r, g, b), Mixed(Primaries[2], r, g, b),
              Mixed(Primaries[3], r, g, b)))

convertRGBAtoXYZ(rgba) ==
    XYZOf(Linear(rgba.R), Linear(rgba.G), Linear(rgba.B))

\* the literals of convertRGBAtoCIELAB
Xn == Dec(95047, 3)
Yn == F64FromInt(100)
Zn == Dec(108883, 3)
LabKnee == F64Pow(F64Div(F64FromInt(24), F64FromInt(116)), F64FromInt(3))
LabSlope == F64Div(F64FromInt(841), F64FromInt(108))
LabShift == F64Div(F64FromInt(16), F64FromInt(116))
OneThird == F64Div(One, F64FromInt(3))

\* the closure f of convertRGBAtoCIELAB
LabF(t) ==
    IF F64Less(LabKnee, t) THEN F64Pow(t, OneThird)
    ELSE F64Add(F64Mul(LabSlope, t), LabShift)

\* lines 243-247
LabOfF(fx, fy, fz) ==
    After(<<fx, fy, fz>>,
          cielab(F64Sub(F64Mul(F64FromInt(116), fy), F64FromInt(16)),
                 F64Mul(F64FromInt(500), F64Sub(fx, fy)),
                 F64Mul(F64FromInt(200), F64Sub(fy, fz))))

\* lines 232-247
LabOfXYZ(v) ==
    After(v,
          LabOfF(LabF(F64Div(v.x, Xn)), LabF(F64Div(v.y, Yn)), LabF(F64Div(v.z, Zn))))

convertRGBAtoCIELAB(rgba) == LabOfXYZ(convertRGBAtoXYZ(rgba))

\* math.Pow(x, 2)
Squared(x) == F64Pow(x, Two)

\* a distance that counts the alpha channel as a fourth coordinate
rgbDistanceAlpha(color1, color2) ==
    F64Add(F64Add(F64Add(Squared(F64Sub(F64FromInt(color1.R), F64FromInt(color2.R))),
                         Squared(F64Sub(F64FromInt(color1.G), F64FromInt(color2.G)))),
                  Squared(F64Sub(F64FromInt(color1.B), F64FromInt(color2.B)))),
           Squared(F64Sub(F64FromInt(color1.A), F64FromInt(color2.A))))

rgbDistance(color1, color2) ==
    F64Add(F64Add(Squared(F64Sub(F64FromInt(color1.R), F64FromInt(color2.R))),
                  Squared(F64Sub(F64FromInt(color1.G), F64FromInt(color2.G)))),
           Squared(F64Sub(F64FromInt(color1.B), F64FromInt(color2.B))))

\* the third term is formed from c2.b and c2.b
cie76distance(c1, c2) ==
    F64Add(F64Add(Squared(F64Sub(c2.l, c1.l)), Squared(F64Sub(c2.a, c1.a))),
           Squared(F64Sub(c2.b, c2.b)))

\* math.Sqrt(a*a + b*b)
Chroma(a, b) == F64Sqrt(F64Add(F64Mul(a, a), F64Mul(b, b)))

\* lines 263-267
SqrtIfPositive(xDH) ==
    IF F64Less(Zero(0), xDH) THEN F64Sqrt(xDH) ELSE Zero(0)

\* line 275, the three terms being divided already
SumOfSquares(xDL, xDC, xDH) ==
    After(<<xDL, xDC, xDH>>,
          F64Add(F64Add(F64Mul(xDL, xDL), F64Mul(xDC, xDC)), F64Mul(xDH, xDH)))

\* the literals 0.045 and 0.015 of lines 268-269 and 336-337
ChromaWeight == Dec(45, 3)
HueWeight == Dec(15, 3)

\* lines 268-275, with xDH before its division
cie94Scaled(xDL, xDC, xDH, xC1) ==
    After(<<xDL, xDC, xDH, xC1>>,
          SumOfSquares(xDL,
                       F64Div(xDC, F64Add(One, F64Mul(ChromaWeight, xC1))),
                       F64Div(xDH, F64Add(One, F64Mul(HueWeight, xC1)))))

\* lines 262-275
cie94Hue(xDL, xDC, xDE, xC1) ==
    After(<<xDL, xDC, xDE, xC1>>,
          cie94Scaled(xDL, xDC,
                      SqrtIfPositive(F64Sub(F64Sub(F64Mul(xDE, xDE), F64Mul(xDL, xDL)),
                                            F64Mul(xDC, xDC))),
                      xC1))

\* lines 257-275
cie94Chroma(col1, col2, xC1, xC2) ==
    After(<<xC1, xC2>>,
          cie94Hue(F64Sub(col2.l, col1.l), F64Sub(xC2, xC1),
                   F64Sqrt(F64Add(F64Add(Squared(F64Sub(col1.l, col2.l)),
                                         Squared(F64Sub(col1.a, col2.a))),
                                  Squared(F64Sub(col1.b, col2.b)))),
                   xC1))

cie94distance(col1, col2) ==
    cie94Chroma(col1, col2, Chroma(col1.a, col1.b), Chroma(col2.a, col2.b))

cielab2hue(a, b) == F64Mul(F64Atan2(b, a), rad2deg)

\* math.Sqrt(math.Pow(x, 7.) / (math.Pow(x, 7.) + math.Pow(25., 7.)))
Pow7Ratio(x) ==
    F64Sqrt(F64Div(F64Pow(x, F64FromInt(7)),
                   F64Add(F64Pow(x, F64FromInt(7)),
                          F64Pow(F64FromInt(25), F64FromInt(7)))))

\* math.Cos(deg2rad * d)
CosDeg(d) == F64Cos(F64Mul(deg2rad, d))

\* line 343
cie2000Sum(xDL, xDC, xDH, xRT) ==
    After(<<xDL, xDC, xDH, xRT>>,
          F64Add(SumOfSquares(xDL, xDC, xDH), F64Mul(F64Mul(xRT, xDC), xDH)))

\* the literals 0.17, 0.24, 0.32 and 0.20 of lines 329-332
HueTerms == <<Dec(17, 2), Dec(24, 2), Dec(32, 2), Dec(20, 2)>>

\* lines 329-332
cie2000TX(xHX) ==
    After(xHX,
          F64Sub(F64Add(F64Add(F64Sub(One,
                          F64Mul(HueTerms[1], CosDeg(F64Sub(xHX, F64FromInt(30))))),
                          F64Mul(HueTerms[2], CosDeg(F64Mul(Two, xHX)))),
                        F64Mul(HueTerms[3],
                               CosDeg(F64Add(F64Mul(F64FromInt(3), xHX), F64FromInt(6))))),
                 F64Mul(HueTerms[4],
                        CosDeg(F64Sub(F64Mul(F64FromInt(4), xHX), F64FromInt(63))))))

\* line 335, d being xLX - 50.
cie2000SL(d) ==
    After(d,
          F64Add(One, F64Div(F64Mul(F64Mul(HueWeight, d), d),
                             F64Sqrt(F64Add(F64FromInt(20), F64Mul(d, d))))))

\* line 333, u being (xHX - 275.) / 25.
cie2000PH(u) ==
    After(u,
          F64Mul(F64FromInt(30), F64Exp(F64Mul(F64Neg(u), u))))

\* lines 333-334 and 338: xRT from xHX and xCY
cie2000RT(xHX, xCY) ==
    After(<<xHX, xCY>>,
          F64Mul(F64Neg(F64Sin(F64Mul(deg2radTwice,
                      cie2000PH(F64Div(F64Sub(xHX, F64FromInt(275)), F64FromInt(25)))))),
                 F64Mul(Two, Pow7Ratio(xCY))))

\* lines 329-343
cie2000Weights(xDL, xDC, xDH, xLX, xCY, xHX) ==
    After(<<xDL, xDC, xDH, xLX, xCY, xHX>>,
          cie2000Sum(F64Div(xDL, cie2000SL(F64Sub(xLX, F64FromInt(50)))),
                     F64Div(xDC, F64Add(One, F64Mul(ChromaWeight, xCY))),
                     F64Div(xDH, F64Add(One, F64Mul(F64Mul(HueWeight, xCY),
                                                    cie2000TX(xHX)))),
                     cie2000RT(xHX, xCY)))

\* lines 296-309: the hue difference, xNN being xH2 - xH1
cie2000DH(az, xNN) ==
    After(<<az, xNN>>,
          IF az THEN Zero(0)
          ELSE IF F64Leq(F64Abs(xNN), F64FromInt(180)) THEN xNN
          ELSE IF F64Less(F64FromInt(180), xNN) THEN F64Sub(xNN, F64FromInt(360))
          ELSE F64Add(xNN, F64FromInt(360)))

\* lines 314-328: the mean hue
cie2000HX(az, xH1, xH2) ==
    After(<<az, xH1, xH2>>,
          IF az THEN F64Add(xH1, xH2)
          ELSE IF F64Less(F64FromInt(180), F64Abs(F64Sub(xH1, xH2)))
          THEN IF F64Less(F64Add(xH2, xH1), F64FromInt(360))
               THEN F64Div(F64Add(F64Add(xH1, xH2), F64FromInt(360)), Two)
               ELSE F64Div(F64Sub(F64Add(xH1, xH2), F64FromInt(360)), Two)
          ELSE F64Div(F64Add(xH1, xH2), Two))

\* lines 293-343: prod is xC1 * xC2
cie2000Polar(l1, l2, xC1, xH1, xC2, xH2, prod) ==
    After(<<xC1, xH1, xC2, xH2, prod>>,
          cie2000Weights(F64Sub(l2, l1), F64Sub(xC2, xC1),
                         F64Mul(F64Mul(Two, F64Sqrt(prod)),
                                F64Sin(F64Mul(deg2rad,
                                   F64Div(cie2000DH(almostZero(prod), F64Sub(xH2, xH1)),
                                          Two)))),
                         F64Div(F64Add(l1, l2), Two), F64Div(F64Add(xC1, xC2), Two),
                         cie2000HX(almostZero(prod), xH1, xH2)))

\* lines 288-343: xC1, xC2 here are the chromas of the adjusted a
cie2000Chroma(l1, l2, xC1, xH1, xC2, xH2) ==
    After(<<xC1, xH1, xC2, xH2>>,
          cie2000Polar(l1, l2, xC1, xH1, xC2, xH2, F64Mul(xC1, xC2)))

\* lines 287-343: xNN1, xNN2 are the adjusted a of the two colours
cie2000Adjusted(col1, col2, xNN1, xNN2) ==
    After(<<xNN1, xNN2>>,
          cie2000Chroma(col1.l, col2.l,
                        Chroma(xNN1, col1.b), cielab2hue(xNN1, col1.b),
                        Chroma(xNN2, col2.b), cielab2hue(xNN2, col2.b)))

\* lines 287-343, g being 1. + xGX
cie2000G(col1, col2, g) ==
    After(g,
          cie2000Adjusted(col1, col2, F64Mul(g, col1.a), F64Mul(g, col2.a)))

cie2000distance(col1, col2) ==
    cie2000G(col1, col2,
             F64Add(One,
                    F64Mul(Half,
                           F64Sub(One,
                                  Pow7Ratio(F64Div(F64Add(Chroma(col1.a, col1.b),
                                                          Chroma(col2.a, col2.b)),
                                                   Two))))))

(***************************************************************************)
(* Images.  An image.RGBA is [Pix, Stride, Rect]: Pix holds four bytes a   *)
(* pixel, row after row.  The field sets is a history of the object: how   *)
(* many times SetRGBA has stored each pixel.                               *)
(***************************************************************************)
Pt(x, y) == [X |-> x, Y |-> y]

\* image.Rect: the corners are put in order
Rect(x0, y0, x1, y1) ==
    [Min |-> Pt(Min2(x0, x1), Min2(y0, y1)),
     Max |-> Pt(Max2(x0, x1), Max2(y0, y1))]

\* Rectangle.Size
Size(r) == Pt(r.Max.X - r.Min.X, r.Max.Y - r.Min.Y)

\* Point.In
In(x, y, r) ==
    /\ r.Min.X <= x
    /\ x < r.Max.X
    /\ r.Min.Y <= y
    /\ y < r.Max.Y

\* image.NewRGBA: every byte zero
NewRGBA(r) ==
    [Pix    |-> [o \in 0..(4 * Size(r).X * Size(r).Y - 1) |-> 0],
     Stride |-> 4 * Size(r).X,
     Rect   |-> r,
     sets   |-> [q \in 0..(Size(r).X * Size(r).Y - 1) |-> 0]]

PixOffset(p, x, y) ==
    (y - p.Rect.Min.Y) * p.Stride + (x - p.Rect.Min.X) * 4

\* RGBA.RGBAAt: the zero colour outside the rectangle
RGBAAt(p, x, y) ==
    IF ~In(x, y, p.Rect) THEN RGBA(0, 0, 0, 0)
    ELSE LET i == PixOffset(p, x, y)
         IN  RGBA(p.Pix[i], p.Pix[i + 1], p.Pix[i + 2], p.Pix[i + 3])

\* the four stores of SetRGBA at offset i
Store(p, i, c) ==
    [p EXCEPT !.Pix[i] = c.R, !.Pix[i + 1] = c.G,
              !.Pix[i + 2] = c.B, !.Pix[i + 3] = c.A,
              !.sets[i \div 4] = @ + 1]

\* a SetRGBA that does not test the point: a column past the right edge
\* lands in the next row
SetRGBAUnchecked(p, x, y, c) ==
    LET i == PixOffset(p, x, y)
    IN  IF i \in DOMAIN p.Pix THEN Store(p, i, c) ELSE p

\* RGBA.SetRGBA: nothing happens outside the rectangle
SetRGBA(p, x, y, c) ==
    IF ~In(x, y, p.Rect) THEN p ELSE Store(p, PixOffset(p, x, y), c)

(***************************************************************************)
(* The directory the driver runs in.  A file name is a sequence of         *)
(* characters.  A file that decodes is W by H pixels; the pixel at (x, y)  *)
(* is given by its pattern.                                                *)
(***************************************************************************)
White   == RGBA(255, 255, 255, 255)
Sand    == RGBA(200, 190, 180, 255)
Red     == RGBA(255, 0, 0, 255)
Blue    == RGBA(0, 0, 255, 255)
Night   == RGBA(10, 20, 30, 255)

File(name, decodes, w, h, pat) ==
    [Name |-> name, decodes |-> decodes, W |-> w, H |-> h, pat |-> pat]

\* ioutil.ReadDir returns the entries sorted by name: this is that order
Directory ==
    << File(<<"a", ".", "j", "p", "g">>, TRUE, 120, 1, "white"),
       File(<<"b", ".", "j", "p", "g">>, TRUE, 320, 1, "sand"),
       File(<<"c", ".", "j", "p", "g">>, TRUE, 640, 2, "sand"),
       File(<<"d", ".", "j", "p", "g">>, TRUE, 640, 4, "tiles"),
       File(<<"e", ".", "j", "p", "g">>, FALSE, 0, 0, "none"),
       File(<<"j", "p", "g">>, TRUE, 640, 2, "white") >>

\* the decoded colour of pixel (x, y) of a file
FilePixel(f, x, y) ==
    CASE f.pat = "white" -> White
      [] f.pat = "sand"  -> Sand
      [] f.pat = "tiles" ->
            LET k == ((x \div 4) + (y \div 2)) % 3
            IN  IF x % 4 = 1 THEN Sand
                ELSE IF k = 0 THEN Red
                ELSE IF k = 1 THEN Blue
                ELSE Night
      [] OTHER -> RGBA(0, 0, 0, 0)

\* strings.HasSuffix
HasSuffix(str, suffix) ==
    /\ Len(str) >= Len(suffix)
    /\ SubSeq(str, Len(str) - Len(suffix) + 1, Len(str)) = suffix

\* strings.TrimSuffix
TrimSuffix(str, suffix) ==
    IF HasSuffix(str, suffix) THEN SubSeq(str, 1, Len(str) - Len(suffix))
    ELSE str

DotJpg == <<".", "j", "p", "g">>

\* LoadImage: decode, allocate an RGBA of the same bounds, draw onto it
LoadImage(f) ==
    IF ~f.decodes THEN [err |-> TRUE]
    ELSE LET rgba == NewRGBA(Rect(0, 0, f.W, f.H))
         IN  IF rgba.Stride # Size(rgba.Rect).X * 4 THEN [err |-> TRUE]
             ELSE
             [err |-> FALSE,
              img |-> [rgba EXCEPT !.Pix =
                        [o \in DOMAIN rgba.Pix |->
                            LET q == o \div 4
                                c == FilePixel(f, q % f.W, q \div f.W)
                            IN  CASE o % 4 = 0 -> c.R
                                  [] o % 4 = 1 -> c.G
                                  [] o % 4 = 2 -> c.B
                                  [] OTHER     -> c.A]]]

\* the colours whose CIELAB value is kept in a table
KnownColours ==
    {C64Colors[i] : i \in 0..15}
        \cup {White, Sand, Red, Blue, Night, RGBA(0, 0, 0, 0)}

\* a finite map, held entry by entry
LabTable == << >> @@ [c \in KnownColours |-> convertRGBAtoCIELAB(c)]

\* convertRGBAtoCIELAB, looked up where the table has the colour
CIELABOf(c) ==
    IF c \in KnownColours THEN LabTable[c] ELSE convertRGBAtoCIELAB(c)

(***************************************************************************)
(* The conversion.                                                         *)
(***************************************************************************)
targetWidth == 320

\* what uint8(x) yields for a NaN is left to the implementation: the low
\* byte of the integer indefinite (0) or of the largest integer (255)
NaNBytes == {0, 255}

\* lines 169-180: the distance of a palette entry whose CIELAB value is lab2
deltaE(color, rgbColor, method, c64Color, lab2) ==
    CASE method = "RGBMethod" -> rgbDistance(rgbColor, c64Color)
      [] method = "CIE76"     -> cie76distance(color, lab2)
      [] method = "CIE94"     -> cie94distance(color, lab2)
      [] method = "CIE2000"   -> cie2000distance(color, lab2)

\* the comparison of closestC64Color taking the later entry on a tie
closestStepLast(i, bestIndex, bestDistance, d) ==
    IF F64Less(d, bestDistance) \/ F64Eq(d, bestDistance)
    THEN [bestIndex |-> i, bestDistance |-> d]
    ELSE [bestIndex |-> bestIndex, bestDistance |-> bestDistance]

\* lines 182-185: the comparison for entry i, whose distance is d
closestStep(i, bestIndex, bestDistance, d) ==
    IF F64Less(d, bestDistance)
    THEN [bestIndex |-> i, bestDistance |-> d]
    ELSE [bestIndex |-> bestIndex, bestDistance |-> bestDistance]

\* lines 166-185: the loop of closestC64Color for the entries lo..hi, best
\* being what the entries before them have left (an index is never negative)
RECURSIVE closestLoop(_, _, _, _, _, _)
closestLoop(color, rgbColor, method, lo, hi, best) ==
    IF best.bestIndex < 0 THEN best
    ELSE IF lo = hi
    THEN closestStep(lo, best.bestIndex, best.bestDistance,
                     deltaE(color, rgbColor, method, C64Colors[lo],
                            CIELABOf(C64Colors[lo])))
    ELSE closestLoop(color, rgbColor, method, ((lo + hi) \div 2) + 1, hi,
                     closestLoop(color, rgbColor, method, lo,
                                 (lo + hi) \div 2, best))

closestC64Color(color, rgbColor, method) ==
    closestLoop(color, rgbColor, method, 0, 15,
                [bestIndex |-> 0, bestDistance |-> Inf(0)]).bestIndex

\* lines 136-145: one pixel added to the sums
AddPixel(acc, rgbColor, lab) ==
    [l |-> F64Add(acc.l, lab.l), a |-> F64Add(acc.a, lab.a),
     b |-> F64Add(acc.b, lab.b),
     R |-> F64Add(acc.R, F64FromInt(rgbColor.R)),
     G |-> F64Add(acc.G, F64FromInt(rgbColor.G)),
     B |-> F64Add(acc.B, F64FromInt(rgbColor.B))]

\* lines 134-146: the double loop of meanBlockColor from (x, y) on
RECURSIVE SumBlock(_, _, _, _, _)
SumBlock(img, rect, x, y, acc) ==
    After(acc,
          IF x >= rect.Max.X THEN acc
          ELSE IF y >= rect.Max.Y THEN SumBlock(img, rect, x + 1, rect.Min.Y, acc)
          ELSE SumBlock(img, rect, x, y + 1,
                        AddPixel(acc, RGBAAt(img, x, y),
                                 CIELABOf(RGBAAt(img, x, y)))))

\* uint8(x) for a mean x of bytes; nb is what it yields for a NaN
Uint8(x, nb) == IF x.cls = "nan" THEN nb ELSE F64Trunc(x) % 256

\* lines 149-159: the sums divided by pixelCount; 0 / 0 is NaN
MeanOf(sum, pixelCount, nb) ==
    After(sum,
          [color    |-> cielab(F64Div(sum.l, pixelCount), F64Div(sum.a, pixelCount),
                               F64Div(sum.b, pixelCount)),
           rgbColor |-> RGBA(Uint8(F64Div(sum.R, pixelCount), nb),
                             Uint8(F64Div(sum.G, pixelCount), nb),
                             Uint8(F64Div(sum.B, pixelCount), nb), 255)])

meanBlockColor(img, rect, nb) ==
    MeanOf(SumBlock(img, rect, rect.Min.X, rect.Min.Y,
                    [l |-> Zero(0), a |-> Zero(0), b |-> Zero(0),
                     R |-> Zero(0), G |-> Zero(0), B |-> Zero(0)]),
           F64FromInt((rect.Max.X - rect.Min.X) * (rect.Max.Y - rect.Min.Y)),
           nb)

\* line 106
aspectRatio(img) ==
    F64Div(F64FromInt(Size(img.Rect).X), F64FromInt(Size(img.Rect).Y))

\* line 109
targetHeight(img) ==
    F64Ceil(F64Div(F64FromInt(targetWidth), aspectRatio(img)))

\* line 113
blockWidth(img) ==
    F64Trunc(F64Div(F64FromInt(Size(img.Rect).X),
                    F64FromInt(targetWidth \div 2)))

\* line 114
blockHeight(img) ==
    F64Trunc(F64Div(F64FromInt(Size(img.Rect).Y),
                    F64FromInt(targetHeight(img))))

\* the colours meanBlockColor reads in rect, in the order it reads them
RECURSIVE Pixels(_, _, _, _, _)
Pixels(img, rect, x, y, acc) ==
    IF x >= rect.Max.X THEN acc
    ELSE IF y >= rect.Max.Y THEN Pixels(img, rect, x + 1, rect.Min.Y, acc)
    ELSE Pixels(img, rect, x, y + 1, Append(acc, RGBAAt(img, x, y)))

\* the rectangle handed to meanBlockColor for cell (i, j)
BlockRect(bw, bh, i, j) ==
    Rect(i * bw, j * bh, (i + 1) * bw - 1, (j + 1) * bh - 1)

\* how many points of rect lie outside r
PointsOutside(rect, r) ==
    LET w  == Max2(0, Min2(rect.Max.X, r.Max.X) - Max2(rect.Min.X, r.Min.X))
        h  == Max2(0, Min2(rect.Max.Y, r.Max.Y) - Max2(rect.Min.Y, r.Min.Y))
    IN  Size(rect).X * Size(rect).Y - w * h

(***************************************************************************)
(* The state of a running ConvertImage: the heap objects it can reach      *)
(* (img, pal, targetImage) and its history: chosen[j * 321 + i] is the     *)
(* index picked for cell (i, j), outside counts the reads of meanBlockColor*)
(* that fell outside img, empty the calls with pixelCount zero, late the   *)
(* stores made by iterations with 2i >= targetWidth, and known the index   *)
(* picked for the blocks met so far, by the colours read in the block, so  *)
(* that the mean and the match of equal blocks are worked out once.        *)
(***************************************************************************)
\* the two stores of an iteration made into img, not into targetImage
PaintSource(st, i, j, ci) ==
    [st EXCEPT !.img = SetRGBA(SetRGBA(@, i * 2, j, st.pal[ci]),
                               i * 2 + 1, j, st.pal[ci])]

\* lines 122-123: the two stores of an iteration
Paint(st, i, j, ci) ==
    [st EXCEPT !.targetImage = SetRGBA(SetRGBA(@, i * 2, j, st.pal[ci]),
                                       i * 2 + 1, j, st.pal[ci])]

\* the history of an iteration: st1 is st after the stores
Note(st, st1, i, j, rect, key, ci) ==
    [st1 EXCEPT !.chosen[j * (targetWidth + 1) + i] = ci,
                !.outside = @ + PointsOutside(rect, st.img.Rect),
                !.empty = @ + (IF Size(rect).X * Size(rect).Y = 0
                               THEN 1 ELSE 0),
                !.late = @ + (IF i * 2 >= targetWidth
                                    /\ st1.targetImage.sets
                                         # st.targetImage.sets
                              THEN 1 ELSE 0),
                !.known = IF key \in DOMAIN st.known THEN @
                          ELSE (key :> ci) @@ @]

\* lines 122-123 for the index ci
Stores(st, i, j, rect, key, ci) ==
    After(ci, Note(st, Paint(st, i, j, ci), i, j, rect, key, ci))

\* line 120: closestC64Color for the estimate est
Match(est, method) == closestC64Color(est.color, est.rgbColor, method)

\* lines 118-123 for the rectangle rect, key being the colours read in it
Estimate(st, c, i, j, rect, key) ==
    After(key,
          Stores(st, i, j, rect, key,
                 IF key \in DOMAIN st.known THEN st.known[key]
                 ELSE Match(meanBlockColor(st.img, rect, c.nb), c.method)))

\* lines 118-123: one iteration of the inner loop
Block(st, c, i, j, rect) ==
    Estimate(st, c, i, j, rect,
             Pixels(st.img, rect, rect.Min.X, rect.Min.Y, << >>))

Body(st, c, i, j) == Block(st, c, i, j, BlockRect(c.bw, c.bh, i, j))

\* line 117: the inner loop for i = lo .. hi from the state st (a count of
\* stores is never negative): the first half of the columns, then the rest
RECURSIVE Columns(_, _, _, _, _)
Columns(st, c, j, lo, hi) ==
    IF st.late < 0 THEN st
    ELSE IF lo = hi THEN Body(st, c, lo, j)
    ELSE Columns(Columns(st, c, j, lo, (lo + hi) \div 2), c, j,
                 ((lo + hi) \div 2) + 1, hi)

\* line 116: the outer loop from row j on
RECURSIVE Rows(_, _, _, _)
Rows(st, c, j, th) ==
    IF st.late < 0 \/ j >= th THEN st
    ELSE Rows(Columns(st, c, j, 0, targetWidth), c, j + 1, th)

\* lines 116-125: the loops on the grid and the history, all empty
Loops(img, method, nb, th, bw, bh) ==
    IF th >= 0 /\ bw >= 0 /\ bh >= 0
    THEN Rows([img |-> img, pal |-> C64Colors,
               targetImage |-> NewRGBA(Rect(0, 0, targetWidth, th)),
               chosen |-> [q \in 0..((targetWidth + 1) * th - 1) |-> 0],
               outside |-> 0, empty |-> 0, late |-> 0, known |-> << >>],
              [method |-> method, nb |-> nb, bw |-> bw, bh |-> bh], 0, th)
    ELSE [img |-> img]

\* ConvertImage up to the send: the heap and the history it leaves
ConvertImage(img, method, nb) ==
    Loops(img, method, nb, targetHeight(img), blockWidth(img),
          blockHeight(img))

(***************************************************************************)
(* The functions a call can name.                                          *)
(***************************************************************************)
Apply(f, a) ==
    CASE f = "*" -> Mul(a[1], a[2])
      [] f = "+" -> Add(a[1], a[2])
      [] f = "-" -> Sub(a[1], a[2])
      [] f = "/" -> Quo(a[1], a[2])
      [] f = "float64" -> FromInt(a[1])
      [] f = "math.Sqrt" -> Sqrt(a[1])
      [] f = "math.Pow" -> Pow(a[1], a[2])
      [] f = "math.Exp" -> Exp(a[1])
      [] f = "math.Log" -> Log(a[1])
      [] f = "math.Cos" -> Cos(a[1])
      [] f = "math.Sin" -> Sin(a[1])
      [] f = "math.Atan" -> Atan(a[1])
      [] f = "math.Atan2" -> Atan2(a[1], a[2])
      [] f = "convertRGBAtoCIELAB" -> convertRGBAtoCIELAB(a[1])
      [] f = "rgbDistance" -> rgbDistance(a[1], a[2])
      [] f = "cie76distance" -> cie76distance(a[1], a[2])
      [] f = "cie94distance" -> cie94distance(a[1], a[2])
      [] f = "cie2000distance" -> cie2000distance(a[1], a[2])
      [] f = "deltaE" -> deltaE(a[1], a[2], a[3], a[4], a[5])
      [] f = "closestC64Color" -> closestC64Color(a[1], a[2], a[3])
      [] f = "meanBlockColor" -> meanBlockColor(a[1], a[2], a[3])
      [] f = "targetHeight" -> targetHeight(a[1])
      [] f = "blockWidth" -> blockWidth(a[1])
      [] f = "blockHeight" -> blockHeight(a[1])
      [] f = "ConvertImage" -> ConvertImage(a[1], a[2], a[3])

\* the conversions of the directory's images, computed once
Decoded == {LoadImage(Directory[n]).img : n \in {k \in 1..Len(Directory) : Directory[k].decodes}}

ConvertKeys == Decoded \X Methods \X NaNBytes

ConvertedTable ==
    << >> @@ [k \in ConvertKeys |-> Apply("ConvertImage", k)]

\* ConvertImage, looked up where the table has the call
Converted(img, method, nb) ==
    IF <<img, method, nb>> \in ConvertKeys
    THEN ConvertedTable[<<img, method, nb>>]
    ELSE Apply("ConvertImage", <<img, method, nb>>)

\* what a call of SaveImage can come to: os.Create fails and nothing is
\* written; png.Encode fails and leaves the created file incomplete; or the
\* file holds the lossless encoding of the grid
SaveOutcomes == {"create fails", "encode fails", "written"}

\* lines 95-103: the directory d after SaveImage, and the error returned
SaveImage(img, filename, d, outcome) ==
    IF outcome = "create fails" THEN [err |-> TRUE, disk |-> d]
    ELSE [err  |-> FALSE,
          disk |-> [n \in DOMAIN d \cup {filename} |->
                      IF n # filename THEN d[n]
                      ELSE IF outcome = "encode fails"
                      THEN [complete |-> FALSE]
                      ELSE [complete |-> TRUE, Rect |-> img.Rect,
                            Pix |-> img.Pix]]]

(***************************************************************************)
(* The driver (main) and its goroutines.                                   *)
(***************************************************************************)
MaxFiles == 2
MaxFaults == 1
MaxW == 4
MaxH == 50

VARIABLES
    files,          \* the directory listing
    next,           \* the index of the range loop
    pc,             \* where main is
    step,           \* which of the four go statements or receives is next
    originalImage,  \* main's pointer to the loaded image (0: none)
    heap,           \* the images pointers lead to
    palette,        \* the package variable C64Colors
    tasks,          \* the goroutines started so far
    disk,           \* the files written by SaveImage
    faults,         \* how many calls of SaveImage have failed
    received,       \* history: the grid main took from each receive
    nanByte,        \* what uint8 yields for a NaN on this build
    call,           \* a call of a function on its own
    ret             \* what that call returned

vars == <<files, next, pc, step, originalImage, heap, palette, tasks, disk,
          faults, received, nanByte, call, ret>>

NoCall == [fn |-> "none"]
NoRet == [none |-> TRUE]
NoState == [none |-> TRUE]

\* the k-th smallest element of a set of numbers
Kth(S, k) == CHOOSE i \in S : Cardinality({j \in S : j < i}) = k - 1

\* the entries of Directory whose indices are in S, in order
Listing(S) == [k \in 1..Cardinality(S) |-> Directory[Kth(S, k)]]

\* lines 50-53: the method of the k-th go statement
GoMethod(k) ==
    CASE k = 1 -> "RGBMethod"
      [] k = 2 -> "CIE76"
      [] k = 3 -> "CIE94"
      [] k = 4 -> "CIE2000"

\* go statements that hand the CIE76 and CIE94 tasks each other's channel
GoChannelCrossed(k) ==
    CASE k = 1 -> "rgbChannel"
      [] k = 2 -> "cie94Channel"
      [] k = 3 -> "cie76Channel"
      [] k = 4 -> "cie2000Channel"

\* lines 50-53: the channel of the k-th go statement
GoChannel(k) ==
    CASE k = 1 -> "rgbChannel"
      [] k = 2 -> "cie76Channel"
      [] k = 3 -> "cie94Channel"
      [] k = 4 -> "cie2000Channel"

\* lines 56-59: the channel of the k-th receive
RecvChannel(k) ==
    CASE k = 1 -> "rgbChannel"
      [] k = 2 -> "cie76Channel"
      [] k = 3 -> "cie94Channel"
      [] k = 4 -> "cie2000Channel"

\* lines 56-59: the file name of the k-th SaveImage
OutName(baseFilename, k) ==
    <<"c", "6", "4", "_">> \o baseFilename \o
        (CASE k = 1 -> <<"_", "R", "G", "B">>
           [] k = 2 -> <<"_", "C", "I", "E", "7", "6">>
           [] k = 3 -> <<"_", "C", "I", "E", "9", "4">>
           [] k = 4 -> <<"_", "C", "I", "E", "2", "0", "0", "0">>)
        \o <<".", "p", "n", "g">>

Init ==
    /\ files = << >>
    /\ nanByte \in NaNBytes
    /\ next = 1
    /\ pc = "start"
    /\ step = 0
    /\ originalImage = 0
    /\ heap = << >>
    /\ palette = C64Colors
    /\ tasks = << >>
    /\ disk = << >>
    /\ faults = 0
    /\ received = << >>
    /\ call = NoCall
    /\ ret = NoRet

\* lines 31-34: ioutil.ReadDir lists the directory, or fails and main panics
ReadDir ==
    /\ pc = "start"
    /\ \/ \E S \in SUBSET (1..Len(Directory)) :
             /\ Cardinality(S) <= MaxFiles
             /\ files' = Listing(S)
             /\ pc' = "range"
       \/ /\ files' = files
          /\ pc' = "panic"
    /\ UNCHANGED <<next, step, originalImage, heap, palette, tasks, disk,
                   faults, received, nanByte, call, ret>>

\* lines 41, 43: the loop head and the suffix test
Range ==
    /\ pc = "range"
    /\ IF next > Len(files)
       THEN pc' = "done" /\ next' = next
       ELSE IF HasSuffix(files[next].Name, DotJpg)
       THEN pc' = "load" /\ next' = next
       ELSE pc' = "range" /\ next' = next + 1
    /\ UNCHANGED <<files, step, originalImage, heap, palette, tasks, disk,
                   faults, received, nanByte, call, ret>>

\* the images a goroutine that has not ended can still reach
Live(h) ==
    [p \in {q \in DOMAIN h : \E t \in DOMAIN tasks :
                tasks[t].pc # "exit" /\ tasks[t].img = q} |-> h[p]]

\* lines 44-49: LoadImage, and the panic on its error
Load ==
    /\ pc = "load"
    /\ LET r == LoadImage(files[next])
       IN  IF r.err
           THEN /\ pc' = "panic"
                /\ UNCHANGED <<step, originalImage, heap>>
           ELSE /\ pc' = "go"
                /\ step' = 1
                /\ originalImage' = next
                /\ heap' = (next :> r.img) @@ Live(heap)
    /\ UNCHANGED <<files, next, palette, tasks, disk, faults, received,
                   nanByte, call, ret>>

\* lines 50-53: the k-th go statement
Go(k) ==
    /\ pc = "go"
    /\ step = k
    /\ tasks' = Append(tasks, [img |-> originalImage, method |-> GoMethod(k),
                               ch |-> GoChannel(k), pc |-> "run",
                               st |-> NoState])
    /\ IF k < 4 THEN pc' = "go" /\ step' = k + 1
       ELSE pc' = "recv" /\ step' = 1
    /\ UNCHANGED <<files, next, originalImage, heap, palette, disk, faults,
                   received, nanByte, call, ret>>

\* goroutine t at its send, having left st
Arrive(t, st) ==
    /\ tasks' = [tasks EXCEPT ![t].pc = "send",
                              ![t].st = [targetImage |-> st.targetImage,
                                         chosen |-> st.chosen,
                                         outside |-> st.outside,
                                         empty |-> st.empty,
                                         late |-> st.late]]
    /\ heap' = [heap EXCEPT ![tasks[t].img] = st.img]
    /\ palette' = st.pal

\* lines 105-125: goroutine t runs ConvertImage up to its send
Convert(t) ==
    /\ t \in DOMAIN tasks
    /\ tasks[t].pc = "run"
    /\ Arrive(t, Converted(heap[tasks[t].img], tasks[t].method, nanByte))
    /\ UNCHANGED <<files, next, pc, step, originalImage, disk, faults,
                   received, nanByte, call, ret>>

\* lines 56-59 with line 126: the k-th receive meets the send of a goroutine
\* on the same channel and the goroutine ends; main hands the grid to
\* SaveImage and goes on whatever SaveImage returns
Receive(k) ==
    /\ pc = "recv"
    /\ step = k
    /\ \E t \in DOMAIN tasks, outcome \in SaveOutcomes :
          /\ tasks[t].pc = "send"
          /\ tasks[t].ch = RecvChannel(k)
          /\ outcome # "written" => faults < MaxFaults
          /\ faults' = IF outcome # "written" THEN faults + 1 ELSE faults
          /\ received' = (<<next, k>> :> [Rect |-> tasks[t].st.targetImage.Rect,
                                          Pix  |-> tasks[t].st.targetImage.Pix])
                            @@ received
          /\ disk' = SaveImage(tasks[t].st.targetImage,
                               OutName(TrimSuffix(files[next].Name, DotJpg), k),
                               disk, outcome).disk
          /\ tasks' = [tasks EXCEPT ![t].pc = "exit", ![t].st = NoState]
    /\ IF k < 4 THEN pc' = "recv" /\ step' = k + 1 /\ next' = next
       ELSE pc' = "range" /\ step' = 0 /\ next' = next + 1
    /\ UNCHANGED <<files, originalImage, heap, palette, nanByte, call, ret>>

MaxTasks == 4 * (MaxFiles + 1)

Main ==
    ReadDir \/ Range \/ Load \/ (\E k \in 1..4 : Go(k))
        \/ (\E k \in 1..4 : Receive(k))

Next == Main \/ (\E t \in 1..MaxTasks : Convert(t))

Spec == Init /\ [][Next]_vars

\* the scheduler runs every goroutine that can take a step
FairSpec ==
    Spec /\ WF_vars(Main) /\ (\A t \in 1..MaxTasks : WF_vars(Convert(t)))

(***************************************************************************)
(* The functions on their own: a call is drawn, the function is applied.   *)
(***************************************************************************)
\* the mean of no pixels
NaNLab == cielab(NaN, NaN, NaN)

Grey87  == RGBA(87, 87, 87, 255)
Green   == RGBA(0, 255, 0, 255)
Yellow  == RGBA(255, 255, 0, 255)
Violet  == RGBA(128, 64, 200, 255)
Cyan    == RGBA(111, 163, 177, 255)
\* under CIE2000 entry 10 is nearest to it, entry 4 a close second
Rose    == RGBA(170, 48, 92, 255)

RgbSamples ==
    {Night, Sand, Red, Blue, White, Grey87, RGBA(10, 20, 30, 0),
     RGBA(200, 190, 180, 7), RGBA(0, 0, 0, 0)}

\* a cielab with whole-numbered fields
LabOfInts(l, a, b) == cielab(FromInt(l), FromInt(a), FromInt(b))

LabSamples ==
    {LabOfInts(50, 0, 10), LabOfInts(50, 0, 20), LabOfInts(50, 10, 10),
     LabOfInts(0, 0, 0), LabOfInts(25, -30, 45),
     Apply("convertRGBAtoCIELAB", <<Sand>>),
     Apply("convertRGBAtoCIELAB", <<Red>>)}

\* the estimates handed to closestC64Color: the means of uniform blocks,
\* and the mean of an empty block
Estimates ==
    {[color |-> Apply("convertRGBAtoCIELAB", <<c>>), rgbColor |-> c] :
        c \in {Night, Sand, Grey87, Red, Green, Blue, Yellow, Violet, Cyan,
               Rose}}
    \cup {[color |-> NaNLab, rgbColor |-> RGBA(nb, nb, nb, 255)] :
            nb \in NaNBytes}

Calls ==
    {[fn |-> "rgbDistance", color1 |-> c1, color2 |-> c2] :
        c1 \in RgbSamples, c2 \in RgbSamples}
    \cup {[fn |-> "cie76distance", c1 |-> c1, c2 |-> c2] :
            c1 \in LabSamples, c2 \in LabSamples}
    \cup {[fn |-> "closestC64Color", color |-> e.color,
           rgbColor |-> e.rgbColor, method |-> m] :
            e \in Estimates, m \in Methods}
    \cup {[fn |-> "targetRect", img |-> [Rect |-> Rect(0, 0, w, h)]] :
            w \in 1..MaxW, h \in 1..MaxH}

InitFn ==
    /\ call \in Calls
    /\ ret = NoRet
    /\ files = << >>
    /\ next = 1
    /\ pc = "off"
    /\ step = 0
    /\ originalImage = 0
    /\ heap = << >>
    /\ palette = C64Colors
    /\ tasks = << >>
    /\ disk = << >>
    /\ faults = 0
    /\ received = << >>
    /\ nanByte = 0

Returns(v) ==
    /\ ret = NoRet
    /\ ret' = [v |-> v]
    /\ UNCHANGED <<files, next, pc, step, originalImage, heap, palette,
                   tasks, disk, faults, received, nanByte, call>>

CallRgbDistance ==
    /\ call.fn = "rgbDistance"
    /\ Returns(Apply("rgbDistance", <<call.color1, call.color2>>))

CallCie76distance ==
    /\ call.fn = "cie76distance"
    /\ Returns(Apply("cie76distance", <<call.c1, call.c2>>))

CallClosestC64Color ==
    /\ call.fn = "closestC64Color"
    /\ Returns(Apply("closestC64Color",
                     <<call.color, call.rgbColor, call.method>>))

\* lines 106-111: the rectangle of the grid ConvertImage allocates
CallTargetRect ==
    /\ call.fn = "targetRect"
    /\ Returns(Rect(0, 0, targetWidth, Apply("targetHeight", <<call.img>>)))

NextFn ==
    CallRgbDistance \/ CallCie76distance \/ CallClosestC64Color
        \/ CallTargetRect

SpecFn == InitFn /\ [][NextFn]_vars

(***************************************************************************)
(* The properties.  Those over SpecFn speak of a call and what it returned; *)
(* those over Spec and FairSpec of the driver and its goroutines.           *)
(***************************************************************************)
\* the goroutines that have left the loops of ConvertImage and stand at
\* the send of line 126
AtSend == {t \in DOMAIN tasks : tasks[t].pc = "send"}

\* byte n of the four bytes of a colour
Component(c, n) ==
    CASE n = 0 -> c.R
      [] n = 1 -> c.G
      [] n = 2 -> c.B
      [] OTHER -> c.A

RgbOf(c) == <<c.R, c.G, c.B>>

\* C1: rgbDistance(c1, c2) is (R1-R2)^2 + (G1-G2)^2 + (B1-B2)^2 whatever
\* the alpha channels hold, and it is 87500 for {10,20,30}, {200,190,180}.
C1_RgbDistance ==
    (call.fn = "rgbDistance" /\ ret # NoRet) =>
        /\ ret.v = FromInt((call.color1.R - call.color2.R)^2
                             + (call.color1.G - call.color2.G)^2
                             + (call.color1.B - call.color2.B)^2)
        /\ (RgbOf(call.color1) = <<10, 20, 30>>
              /\ RgbOf(call.color2) = <<200, 190, 180>>) =>
                 ret.v = FromInt(87500)

\* the call of the repository's test, with two different alpha values, has
\* returned 87500
C1_Anchor ==
    /\ call.fn = "rgbDistance"
    /\ call.color1 = RGBA(10, 20, 30, 0)
    /\ call.color2 = RGBA(200, 190, 180, 7)
    /\ ret # NoRet
    /\ ret.v = FromInt(87500)

\* the distances of the sample of the call to the palette entries under
\* the metric of the call, as the program computes them
Distances ==
    << >> @@ [k \in 0..15 |->
                Apply("deltaE",
                      <<call.color, call.rgbColor, call.method, C64Colors[k],
                        Apply("convertRGBAtoCIELAB", <<C64Colors[k]>>)>>)]

\* C2: under every metric closestC64Color returns an index in 0..15 such
\* that no palette entry is closer to the sample than the entry returned,
\* and every entry before the one returned is strictly farther (the lowest
\* index among those at the least distance).
C2_Closest ==
    (call.fn = "closestC64Color" /\ ret # NoRet) =>
        /\ ret.v \in 0..15
        /\ LET d == Distances
           IN  /\ \A k \in 0..15 : ~F64Less(d[k], d[ret.v])
               /\ \A k \in 0..15 : k < ret.v => F64Less(d[ret.v], d[k])

\* a tie: the grey (87,87,87) is as far from entry 11 as from entry 12 in
\* RGB, no entry is closer, and the call has returned 11
C2_Tie ==
    /\ call.fn = "closestC64Color"
    /\ call.method = "RGBMethod"
    /\ call.rgbColor = Grey87
    /\ ret # NoRet
    /\ ret.v = 11
    /\ Distances[11] = FromInt(1200)
    /\ Distances[12] = FromInt(1200)

\* C4: the grid ConvertImage allocates for a W x H source is 320 wide and
\* its height is the smallest h with h * W >= 320 * H.
C4_TargetSize ==
    (call.fn = "targetRect" /\ ret # NoRet) =>
        LET W == Size(call.img.Rect).X
            H == Size(call.img.Rect).Y
            h == Size(ret.v).Y
        IN  /\ Size(ret.v).X = 320
            /\ h * W >= 320 * H
            /\ (h - 1) * W < 320 * H

\* x * x
SquareOf(x) == F64Mul(x, x)

\* C10: cie76distance(c1, c2) is (L2-L1)^2 + (a2-a1)^2 + (b2-b1)^2, it is
\* the same with its arguments exchanged, and it is zero only for c1 = c2.
C10_Cie76 ==
    (call.fn = "cie76distance" /\ ret # NoRet) =>
        /\ ret.v = F64Add(F64Add(SquareOf(F64Sub(call.c2.l, call.c1.l)),
                                 SquareOf(F64Sub(call.c2.a, call.c1.a))),
                          SquareOf(F64Sub(call.c2.b, call.c1.b)))
        /\ ret.v = Apply("cie76distance", <<call.c2, call.c1>>)
        /\ ret.v = Zero(0) => call.c1 = call.c2

\* the colour of the first pixel of an image
FirstPixel(img) == RGBAAt(img, img.Rect.Min.X, img.Rect.Min.Y)

\* every pixel of img has the colour of the first
IsUniform(img) ==
    \A o \in DOMAIN img.Pix : img.Pix[o] = Component(FirstPixel(img), o % 4)

\* C3: when every pixel of the source has one colour c, of whatever size
\* the source is, every pixel of the grid a goroutine sends is the palette
\* entry closestC64Color picks for c under the goroutine's metric.
C3_Uniform ==
    \A t \in AtSend :
        IsUniform(heap[tasks[t].img]) =>
            \A o \in DOMAIN tasks[t].st.targetImage.Pix :
                tasks[t].st.targetImage.Pix[o] =
                    Component(palette[Apply("closestC64Color",
                        <<Apply("convertRGBAtoCIELAB",
                                <<FirstPixel(heap[tasks[t].img])>>),
                          FirstPixel(heap[tasks[t].img]),
                          tasks[t].method>>)], o % 4)

\* C5: in the grid a goroutine sends, the pixels (2k, j) and (2k+1, j) of
\* every cell k in 0..159 of every row j have the palette colour chosen for
\* cell (k, j), each was stored exactly once, and no iteration with
\* 2i >= 320 stored anything.
C5_PixelPairs ==
    \A t \in AtSend :
        /\ tasks[t].st.late = 0
        /\ \A j \in 0..(Size(tasks[t].st.targetImage.Rect).Y - 1) :
              \A k \in 0..((targetWidth \div 2) - 1) :
                 /\ RGBAAt(tasks[t].st.targetImage, 2 * k, j)
                      = palette[tasks[t].st.chosen[j * (targetWidth + 1) + k]]
                 /\ RGBAAt(tasks[t].st.targetImage, 2 * k + 1, j)
                      = palette[tasks[t].st.chosen[j * (targetWidth + 1) + k]]
                 /\ tasks[t].st.targetImage.sets[j * targetWidth + 2 * k] = 1
                 /\ tasks[t].st.targetImage.sets[j * targetWidth + 2 * k + 1] = 1

\* a goroutine at its send with a grid of two rows whose cells (0, 0) and
\* (159, 1) got different palette entries
C5_TwoRows ==
    \E t \in AtSend :
        /\ Size(tasks[t].st.targetImage.Rect).Y = 2
        /\ tasks[t].st.chosen[0] # tasks[t].st.chosen[targetWidth + 160]
        /\ RGBAAt(tasks[t].st.targetImage, 0, 0)
             # RGBAAt(tasks[t].st.targetImage, 319, 1)

\* C8: the rectangle meanBlockColor is given lies within the source, so no
\* goroutine has read a point outside its source image.
C8_ReadsInside ==
    \A t \in AtSend : tasks[t].st.outside = 0

\* C9: meanBlockColor is never called with a rectangle of no pixels, so no
\* goroutine has divided by a pixel count of zero.
C9_NoEmptyBlock ==
    \A t \in AtSend : tasks[t].st.empty = 0

\* the goroutines of image n on channel ch
TasksOn(n, ch) ==
    {t \in DOMAIN tasks : tasks[t].img = n /\ tasks[t].ch = ch}

\* C7: no step changes an image main has loaded or the palette, and the
\* step in which a goroutine runs ConvertImage changes nothing of any other
\* goroutine: it writes only the grid it allocated itself.
C7_Frame ==
    [][/\ \A p \in DOMAIN heap \cap DOMAIN heap' : heap'[p] = heap[p]
       /\ palette' = palette
       /\ \A t \in DOMAIN tasks :
             (tasks[t].pc = "run" /\ tasks'[t].pc = "send") =>
                 \A u \in DOMAIN tasks \ {t} : tasks'[u] = tasks[u]]_vars

\* the four goroutines of one image have all run ConvertImage on it and
\* none has been received yet
C7_FourAtSend ==
    /\ pc = "recv"
    /\ step = 1
    /\ Cardinality({t \in AtSend : tasks[t].img = originalImage}) = 4
    /\ heap[originalImage] = LoadImage(files[originalImage]).img
    /\ palette = C64Colors

\* the metric the k-th output file is named after
MetricOfOutput(k) ==
    CASE k = 1 -> "RGBMethod"
      [] k = 2 -> "CIE76"
      [] k = 3 -> "CIE94"
      [] k = 4 -> "CIE2000"

\* the suffix of the k-th output file
SuffixOfOutput(k) ==
    CASE k = 1 -> <<"_", "R", "G", "B", ".", "p", "n", "g">>
      [] k = 2 -> <<"_", "C", "I", "E", "7", "6", ".", "p", "n", "g">>
      [] k = 3 -> <<"_", "C", "I", "E", "9", "4", ".", "p", "n", "g">>
      [] k = 4 -> <<"_", "C", "I", "E", "2", "0", "0", "0", ".", "p", "n", "g">>

\* the name of the k-th output file of the file called name
OutputOf(name, k) ==
    <<"c", "6", "4", "_">>
        \o SubSeq(name, 1, Len(name) - 4) \o SuffixOfOutput(k)

\* the entries of the directory main converts
Sources ==
    {n \in 1..Len(Directory) :
        /\ Len(Directory[n].Name) >= 4
        /\ SubSeq(Directory[n].Name, Len(Directory[n].Name) - 3,
                  Len(Directory[n].Name)) = <<".", "j", "p", "g">>
        /\ Directory[n].decodes}

\* for every source, metric and build, the grid of that source under that
\* metric
GridTable ==
    << >> @@ [x \in {<<Directory[n].Name, k, nb>> :
                        n \in Sources, k \in 1..4, nb \in NaNBytes} |->
                LET f == CHOOSE g \in {Directory[n] : n \in Sources} :
                            g.Name = x[1]
                    r == Converted(LoadImage(f).img,
                                   MetricOfOutput(x[2]), x[3]).targetImage
                IN  [Rect |-> r.Rect, Pix |-> r.Pix]]

\* the files n of the listing main has gone through at output k
OutputsDue ==
    {<<n, k>> \in (1..Len(files)) \X (1..4) :
        /\ Len(files[n].Name) >= 4
        /\ SubSeq(files[n].Name, Len(files[n].Name) - 3,
                  Len(files[n].Name)) = <<".", "j", "p", "g">>
        /\ \/ n < next
           \/ n = next /\ pc = "recv" /\ k < step}

\* what holds of main and the goroutines at every moment
C6_Safe ==
    /\ \A t \in DOMAIN tasks :
          /\ Cardinality(TasksOn(tasks[t].img, tasks[t].ch)) = 1
          /\ tasks[t].pc # "exit" => (tasks[t].img = next /\ pc \in {"go", "recv"})
    /\ DOMAIN received = OutputsDue
    /\ \A x \in OutputsDue :
          /\ <<files[x[1]].Name, x[2], nanByte>> \in DOMAIN GridTable
          /\ received[x] = GridTable[<<files[x[1]].Name, x[2], nanByte>>]
    /\ \A name \in DOMAIN disk :
          \E x \in OutputsDue :
             /\ name = OutputOf(files[x[1]].Name, x[2])
             /\ disk[name].complete =>
                   disk[name] = [complete |-> TRUE, Rect |-> received[x].Rect,
                                 Pix |-> received[x].Pix]

\* main has ended, in the normal way with the four grids of every source
\* received, and no goroutine is left
C6_Ended ==
    /\ pc \in {"done", "panic"}
    /\ \A t \in DOMAIN tasks : tasks[t].pc = "exit"
    /\ pc = "done" => Len(tasks) = 4 * Cardinality({n \in 1..Len(files) :
                                        \E k \in 1..4 : <<n, k>> \in OutputsDue})

\* C6: for every image main converts, each of the four goroutines sends one
\* grid, main receives one grid from each of the four channels before it
\* goes on to the next file, the grid received on a metric's channel is the
\* conversion of that image under that metric, and main and the goroutines
\* all come to their end: none stays blocked.
C6_Channels == []C6_Safe /\ <>C6_Ended

\* main has ended normally after two images: eight goroutines have sent
\* their grid and ended, main has received eight grids, and one call of
\* SaveImage has failed
C6_TwoImages ==
    /\ pc = "done"
    /\ Len(tasks) = 8
    /\ \A t \in DOMAIN tasks : tasks[t].pc = "exit"
    /\ Cardinality(DOMAIN received) = 8
    /\ faults = 1
    /\ Cardinality(DOMAIN disk) = 7

=============================================================================
